---- MODULE Spec2Model ----
(***************************************************************************)
(* google-fonts-plugin: the fetch / cache / encode / inject pipeline of    *)
(* src/src/index.js (class GoogleFontsWebpackPlugin) and the refactored    *)
(* hook choreography of src/src/Plugin.js.                                 *)
(*                                                                         *)
(* Strings are sequences of tokens (a token stands for a run of            *)
(* characters no operation of the program ever splits), so concatenation   *)
(* is \o, substring search is a search for a contiguous sub-sequence, and  *)
(* a regular expression is matched token by token.                         *)
(***************************************************************************)
EXTENDS Integers, Sequences, FiniteSets

(* ------------------------------------------------------------------ *)
(* Bounds of the model                                                 *)
(* ------------------------------------------------------------------ *)
MaxFonts == 2
MaxPasses == 2

(* ------------------------------------------------------------------ *)
(* Strings                                                             *)
(* ------------------------------------------------------------------ *)
RECURSIVE Join(_, _)
\* Array.prototype.join: the elements (strings) separated by sep
Join(arr, sep) ==
  IF Len(arr) = 0 THEN <<>>
  ELSE IF Len(arr) = 1 THEN arr[1]
  ELSE arr[1] \o sep \o Join(Tail(arr), sep)

\* str.replace(/\s/gi, '+')
ReplaceSpaces(str) == [i \in 1..Len(str) |-> IF str[i] = " " THEN "+" ELSE str[i]]

\* the positions at which pat occurs in str as a contiguous substring
Occurrences(str, pat) ==
  {i \in 1..(Len(str) - Len(pat) + 1) : SubSeq(str, i, i + Len(pat) - 1) = pat}

\* String.prototype.replace(pattern: string, replacement): only the FIRST
\* occurrence of the literal pattern is replaced
ReplaceFirst(str, pat, rep) ==
  IF Occurrences(str, pat) = {} THEN str
  ELSE LET i == CHOOSE k \in Occurrences(str, pat) : \A m \in Occurrences(str, pat) : k <= m
       IN  SubSeq(str, 1, i - 1) \o rep \o SubSeq(str, i + Len(pat), Len(str))

\* String.prototype.startsWith
StartsWith(str, pre) == Len(str) >= Len(pre) /\ SubSeq(str, 1, Len(pre)) = pre

(* ------------------------------------------------------------------ *)
(* Options (index.js:13-44, 46-64)                                     *)
(* ------------------------------------------------------------------ *)
Woff == <<"woff">>
Woff2 == <<"woff", "2">>

Roboto == [family |-> <<"Roboto">>,
           variants |-> [def |-> TRUE, val |-> << <<"400">>, <<"700">> >>],
           subsets |-> [def |-> TRUE, val |-> << <<"latin">> >>]]
OpenSans == [family |-> <<"Open", " ", "Sans">>,
             variants |-> [def |-> FALSE, val |-> <<>>],
             subsets |-> [def |-> FALSE, val |-> <<>>]]
NoFamily == [family |-> <<>>,
             variants |-> [def |-> TRUE, val |-> << <<"400">> >>],
             subsets |-> [def |-> FALSE, val |-> <<>>]]
Descriptors == {Roboto, OpenSans, NoFamily}

SeqsUpTo(S, n) == UNION {[1..k -> S] : k \in 0..n}

\* the configurations a plugin instance may be constructed with
FontConfigs == SeqsUpTo(Descriptors, MaxFonts)
FormatConfigs == {<<Woff2>>, <<Woff, Woff2>>}


(* ------------------------------------------------------------------ *)
(* Buffers and encodings (fs.readFileSync / fs.writeFileSync / Buffer) *)
(* ------------------------------------------------------------------ *)
\* A value is a Buffer (raw bytes) or a JavaScript string.
Buffer(bytes) == [type |-> "Buffer", data |-> bytes]
String(chars) == [type |-> "string", data |-> chars]

\* decoding bytes as UTF-8: a byte that is no valid UTF-8 becomes U+FFFD
Utf8Decode(bytes) == [i \in 1..Len(bytes) |-> IF bytes[i] = "xFF" THEN "uFFFD" ELSE bytes[i]]
\* encoding a string as UTF-8: U+FFFD is the three bytes EF BF BD
RECURSIVE Utf8Encode(_)
Utf8Encode(chars) ==
  IF Len(chars) = 0 THEN <<>>
  ELSE (IF Head(chars) = "uFFFD" THEN <<"xEF", "xBF", "xBD">> ELSE <<Head(chars)>>)
       \o Utf8Encode(Tail(chars))
\* 'binary' (latin1): byte n is the character with code n, both ways
Latin1Decode(bytes) == bytes
Latin1Encode(chars) == chars

Decode(bytes, encoding) == IF encoding = "utf8" THEN Utf8Decode(bytes) ELSE Latin1Decode(bytes)
Encode(chars, encoding) == IF encoding = "utf8" THEN Utf8Encode(chars) ELSE Latin1Encode(chars)

\* the bytes fs.writeFileSync(file, contents, encoding) writes: a Buffer is
\* written as it is, a string is encoded
FileBytes(contents, encoding) ==
  IF contents.type = "Buffer" THEN contents.data ELSE Encode(contents.data, encoding)

\* value.toString() as Array.prototype.join applies it (a Buffer decodes as UTF-8)
toStr(value) == IF value.type = "Buffer" THEN Utf8Decode(value.data) ELSE value.data

\* Buffer.from(font, 'binary'): the bytes of a Buffer, or of a latin1 string
BufferFrom(value) == IF value.type = "Buffer" THEN value.data ELSE Latin1Encode(value.data)

\* buffer.toString('base64')
Base64(bytes) ==
  [i \in 1..Len(bytes) |-> CASE bytes[i] = "x00" -> "AA"
                             [] bytes[i] = "xFF" -> "/w"
                             [] OTHER -> "??"]

\* JavaScript truthiness of what getFromCache returned: null and '' are falsy
Truthy(response) == response.type /= "null" /\ (response.type = "string" => response.data /= <<>>)

(* ------------------------------------------------------------------ *)
(* The remote service (axios, index.js:134-140)                        *)
(* ------------------------------------------------------------------ *)
CssPrefix == <<"https://fonts.googleapis.com/css?family=">>
FontPrefix == <<"https://fonts.gstatic.com/s/">>
DataPrefix == <<"\"data:application/">>

\* the inline form requestFontFile builds (index.js:170)
DataUri(format, bytes) ==
  DataPrefix \o <<"x-font-">> \o format \o <<";base64,">> \o Base64(bytes) \o <<"\"">>

FontBytes == <<"x00", "xFF">>

\* the shapes of stylesheet the service answers with
Scenarios == {"one", "dup", "comment", "data", "empty", "badext"}

\* the font file a stylesheet of family u[2] refers to for a format
FontUrl(u, format) == FontPrefix \o <<u[2], ".">> \o format

\* the response body (bytes) of GET url with the User-Agent of format
Server(url, format, scenario) ==
  IF StartsWith(url, CssPrefix) THEN
    CASE scenario = "one" ->
           <<"@font-face{src:", "url(">> \o FontUrl(url, format) \o <<")", "}">>
      [] scenario = "dup" ->
           <<"a{", "url(">> \o FontUrl(url, format) \o <<")", "}", "b{", "url(">>
             \o FontUrl(url, format) \o <<")", "}">>
      [] scenario = "comment" ->
           <<"/*">> \o FontUrl(url, format) \o <<"*/", "a{", "url(">>
             \o FontUrl(url, format) \o <<")", "}">>
      [] scenario = "data" ->
           <<"a{", "url(">> \o DataUri(format, FontBytes) \o <<")", "}">>
      [] scenario = "badext" ->
           <<"a{", "url(">> \o FontPrefix \o <<url[2], ".", "svg", ")", "}">>
      [] OTHER -> <<>>
  ELSE FontBytes

(* ------------------------------------------------------------------ *)
(* Cache (index.js:80-105)                                             *)
(* ------------------------------------------------------------------ *)
\* crypto.createHash('sha1').update(requestUrl).digest('hex'): a digest
\* determined by the url; distinct urls of the model have distinct digests
Sha1(requestUrl) == <<"sha1">> \o requestUrl

\* mutant of getCacheKey: the key is the digest alone
KeyWithoutFormat(requestUrl, format) == Sha1(requestUrl)

\* `${format}-${hashedUrl}`
getCacheKey(requestUrl, format) == format \o <<"-">> \o Sha1(requestUrl)

NullValue == [type |-> "null", data |-> <<>>]

\* fs.existsSync(file) ? fs.readFileSync(file, encoding) : null
getFromCache(dir, key, encoding) ==
  IF key \in DOMAIN dir THEN String(Decode(dir[key], encoding)) ELSE NullValue

\* mutant of saveToCache: a file that exists is not written again
SaveKeepFirst(dir, key, contents, encoding) ==
  [k \in DOMAIN dir \cup {key} |->
     IF k \in DOMAIN dir THEN dir[k] ELSE FileBytes(contents, encoding)]

\* fs.writeFileSync(file, contents, encoding), overwriting
saveToCache(dir, key, contents, encoding) ==
  [k \in DOMAIN dir \cup {key} |-> IF k = key THEN FileBytes(contents, encoding) ELSE dir[k]]

(* ------------------------------------------------------------------ *)
(* FontService: pure parts (index.js:107-124, 163-183)                 *)
(* ------------------------------------------------------------------ *)
Null == <<"null">>

\* one element of createRequestStrings: the url of a descriptor, or null
createRequestString(item) ==
  IF item.family /= <<>> THEN
    CssPrefix \o ReplaceSpaces(item.family)
      \o (IF item.variants.def THEN <<":">> \o Join(item.variants.val, <<",">>) ELSE <<>>)
      \o (IF item.subsets.def THEN <<"&subset=">> \o Join(item.subsets.val, <<",">>) ELSE <<>>)
  ELSE Null

createRequestStrings(opts) ==
  [i \in 1..Len(opts.fonts) |-> createRequestString(opts.fonts[i])]

\* the end of the first match of /url\((.+?)\)/i that starts at token i, or 0:
\* "url(", at least one character that is no line break, lazily, then ")"
RECURSIVE LazyEnd(_, _)
LazyEnd(css, j) ==
  IF j > Len(css) THEN 0
  ELSE IF css[j] = ")" THEN j
  ELSE IF css[j] = "\n" THEN 0
  ELSE LazyEnd(css, j + 1)

MatchEnd(css, i) ==
  IF css[i] \in {"url(", "URL("} /\ i + 1 <= Len(css) /\ css[i + 1] /= "\n"
  THEN LazyEnd(css, i + 2) ELSE 0

\* css.match(/url\((.+?)\)/gi): every match, left to right, not overlapping
RECURSIVE MatchAll(_, _)
MatchAll(css, i) ==
  IF i > Len(css) THEN <<>>
  ELSE IF MatchEnd(css, i) > 0
       THEN <<SubSeq(css, i, MatchEnd(css, i))>> \o MatchAll(css, MatchEnd(css, i) + 1)
       ELSE MatchAll(css, i + 1)

\* urlString.replace(regex, '$1'): the text between "url(" and ")"
Inner(urlString) == SubSeq(urlString, 2, Len(urlString) - 1)

\* fontUrls of encodeFonts (index.js:176); css.match gives null when nothing matches
HasMatch(css) == MatchAll(css, 1) /= <<>>
\* mutant of ExtractFontUrls: every url once, at its first place
DistinctFontUrls(css) ==
  LET all == [k \in 1..Len(MatchAll(css, 1)) |-> Inner(MatchAll(css, 1)[k])]
      first == {k \in DOMAIN all : \A j \in 1..(k - 1) : all[j] /= all[k]}
  IN  [n \in 1..Cardinality(first) |->
         all[CHOOSE k \in first : Cardinality({j \in first : j <= k}) = n]]

ExtractFontUrls(css) == [k \in 1..Len(MatchAll(css, 1)) |-> Inner(MatchAll(css, 1)[k])]

\* fontUrl.match(new RegExp('(' + formats.join('|') + ')$')): the positions at
\* which some configured format runs to the end of the url
FormatStarts(fontUrl, formats) ==
  {p \in 1..Len(fontUrl) : \E k \in 1..Len(formats) : SubSeq(fontUrl, p, Len(fontUrl)) = formats[k]}

\* mutant of InferFormat: the first format in configured order that the url ends in
FirstListedFormat(fontUrl, formats) ==
  formats[CHOOSE a \in 1..Len(formats) :
            /\ \E p \in 1..Len(fontUrl) : SubSeq(fontUrl, p, Len(fontUrl)) = formats[a]
            /\ \A b \in 1..(a - 1) :
                 \A p \in 1..Len(fontUrl) : SubSeq(fontUrl, p, Len(fontUrl)) /= formats[b]]

\* the match is the leftmost one; at its position the alternatives are tried in order
InferFormat(fontUrl, formats) ==
  LET p == CHOOSE q \in FormatStarts(fontUrl, formats) :
             \A r \in FormatStarts(fontUrl, formats) : q <= r
      k == CHOOSE a \in 1..Len(formats) :
             /\ SubSeq(fontUrl, p, Len(fontUrl)) = formats[a]
             /\ \A b \in 1..(a - 1) : SubSeq(fontUrl, p, Len(fontUrl)) /= formats[b]
  IN  formats[k]

\* fontsEncoded.forEach((font, index) => css = css.replace(fontUrls[index], font))
RECURSIVE ReplaceEach(_, _, _, _)
ReplaceEach(css, fontUrls, fontsEncoded, index) ==
  IF index > Len(fontUrls) THEN css
  ELSE ReplaceEach(ReplaceFirst(css, fontUrls[index], fontsEncoded[index]),
                   fontUrls, fontsEncoded, index + 1)

\* results.join('') of requestFontsCSS (index.js:152)
RECURSIVE JoinResults(_)
JoinResults(results) ==
  IF Len(results) = 0 THEN <<>>
  ELSE toStr(Head(results)) \o JoinResults(Tail(results))

\* mutant of AssetName: one file name for every format
AssetNameFixed(format) == <<"fonts", ".css">>

\* format + '.css'
AssetName(format) == format \o <<".css">>


(* ------------------------------------------------------------------ *)
(* State                                                               *)
(* ------------------------------------------------------------------ *)
VARIABLES
  impl,        \* which orchestrator is installed: "index" (index.js) or "Plugin" (Plugin.js)
  options,     \* this.options: fonts, formats, cache, encode
  scenario,    \* the shape of stylesheet the remote service answers with
  pass,        \* compilation passes started (first build, then watch rebuilds)
  pc,          \* where the pass is in the hook sequence
  fi,          \* index of the for loop over formats / files
  cacheDir,    \* the disk cache: cache key -> bytes of the file
  netCount,    \* cache key -> network requests issued for it (axios calls)
  fetchCalls,  \* cache key -> requestFont calls made for it
  cacheReads,  \* getFromCache calls made
  fetched,     \* cache keys of which a requestFont has completed successfully
  tasks,       \* the promises of the running fan-out, in input order
  results,     \* the results array of the running fan-in
  overtaken,   \* a request of the running fan-out was answered before an earlier one
  call,        \* arguments of the running requestFontsCSS / encodeFonts
  cssOut,      \* what the last completed requestFontsCSS / encodeFonts returned
  files,       \* index.js: the files array of apply()
  assets,      \* compilation.assets: filename -> content
  chunkFiles,  \* the fonts chunk's files
  chunkCreated,\* the fonts chunk is registered in the compilation
  makeCb,      \* the make hook's callback: "none", "ok" or "err"
  optCb,       \* the optimizeAssets hook's callback: "none", "ok" or "err"
  probe        \* arguments and result of a direct call of one of the plugin's methods

vars == <<impl, options, scenario, pass, pc, fi, cacheDir, netCount, fetchCalls,
          cacheReads, fetched, tasks, results, overtaken, call, cssOut, files, assets,
          chunkFiles, chunkCreated, makeCb, optCb, probe>>

fetchVars == <<cacheDir, netCount, fetchCalls, cacheReads, fetched, tasks, results, overtaken>>
hookVars == <<files, assets, chunkFiles, chunkCreated, makeCb, optCb>>
config == <<impl, options, scenario, probe>>

NoEntries == [k \in {} |-> <<>>]
NoProbe == [fn |-> "none"]
NoCall == [fn |-> "none", format |-> <<>>, file |-> <<>>, css |-> <<>>, fontUrls |-> <<>>]

\* the chunk's own generated file (output.filename of the bundler, [name].js)
ChunkName == <<"google-fonts">>
ChunkFile == ChunkName \o <<".js">>
PlaceholderSource == <<"/* google-fonts-module */">>

Count(f, k) == IF k \in DOMAIN f THEN f[k] ELSE 0
Put(f, k, v) == [x \in DOMAIN f \cup {k} |-> IF x = k THEN v ELSE f[x]]
Remove(f, k) == [x \in DOMAIN f \ {k} |-> f[x]]

\* chunk.files[0]: undefined when the list is empty, and deleting the asset
\* named undefined removes nothing
Undefined == <<"undefined">>
FirstFile(fs) == IF fs = <<>> THEN Undefined ELSE fs[1]

(* ------------------------------------------------------------------ *)
(* requestFont (index.js:126-145) and requestFontFile (index.js:163-171)*)
(* ------------------------------------------------------------------ *)
\* mutant of UseCache: the cache is consulted whatever options.cache is
UseCacheAlways(opts) == TRUE

\* if (this.options.cache)
UseCache(opts) == opts.cache

\* whether requestFont stores the response it got from the network
\* (index.js:141: saveToCache is called whatever options.cache is)
StoresResponse(opts) == TRUE

Task(url, format, encoding, kind) ==
  [url |-> url, format |-> format, encoding |-> encoding, kind |-> kind,
   state |-> "pending", err |-> "", response |-> NullValue, value |-> NullValue,
   net |-> FALSE, read |-> FALSE, prior |-> FALSE, present |-> FALSE]

\* what requestFontFile makes of the font requestFont gave it (index.js:170)
Inline(format, font) == String(DataUri(format, BufferFrom(font)))

Settle(t, response) ==
  [t EXCEPT !.state = "resolved", !.response = response,
            !.value = IF t.kind = "file" THEN Inline(t.format, response) ELSE response]

\* requestFont up to its first await: the cache key, the cache lookup, and
\* either the cached response or a pending network request
requestFont(requestString, format, encoding, kind) ==
  IF requestString = Null
  THEN \* hash.update(null) throws a TypeError: the promise is rejected
       [Task(requestString, format, encoding, kind) EXCEPT !.state = "rejected", !.err = "TypeError"]
  ELSE LET cacheKey == getCacheKey(requestString, format)
           response == IF UseCache(options) THEN getFromCache(cacheDir, cacheKey, encoding)
                       ELSE NullValue
           t == [Task(requestString, format, encoding, kind) EXCEPT
                   !.read = UseCache(options),
                   !.prior = cacheKey \in fetched,
                   !.present = cacheKey \in DOMAIN cacheDir]
       IN  IF Truthy(response) THEN Settle(t, response) ELSE [t EXCEPT !.net = TRUE]

\* mutant of requestFontFile: a url that ends in no configured format is
\* requested as the first configured format
RequestAsFirstFormat(fontUrl) ==
  IF StartsWith(fontUrl, DataPrefix)
  THEN [Task(fontUrl, <<>>, "binary", "data") EXCEPT !.state = "resolved", !.value = String(fontUrl)]
  ELSE requestFont(fontUrl,
                   IF FormatStarts(fontUrl, options.formats) = {} THEN options.formats[1]
                   ELSE InferFormat(fontUrl, options.formats),
                   "binary", "file")

\* requestFontFile up to its first await
requestFontFile(fontUrl) ==
  IF StartsWith(fontUrl, DataPrefix)
  THEN [Task(fontUrl, <<>>, "binary", "data") EXCEPT !.state = "resolved", !.value = String(fontUrl)]
  ELSE IF FormatStarts(fontUrl, options.formats) = {}
  THEN \* match(...) is null and null[1] throws a TypeError
       [Task(fontUrl, <<>>, "binary", "file") EXCEPT !.state = "rejected", !.err = "TypeError"]
  ELSE requestFont(fontUrl, InferFormat(fontUrl, options.formats), "binary", "file")

IsFetch(t) == t.kind /= "data" /\ t.err /= "TypeError"
TaskKey(t) == getCacheKey(t.url, t.format)

\* the bookkeeping of a fan-out: every promise is created before any is awaited
Spawn(ts) ==
  /\ tasks' = ts
  /\ results' = <<>>
  /\ overtaken' = FALSE
  /\ LET keys == {TaskKey(ts[i]) : i \in {j \in 1..Len(ts) : IsFetch(ts[j])}}
         n(k, P(_)) == Cardinality({i \in 1..Len(ts) : IsFetch(ts[i]) /\ TaskKey(ts[i]) = k /\ P(ts[i])})
         all(t) == TRUE
         isNet(t) == t.net
     IN  /\ fetchCalls' = [k \in DOMAIN fetchCalls \cup keys |-> Count(fetchCalls, k) + n(k, all)]
         /\ netCount' = [k \in DOMAIN netCount \cup keys |-> Count(netCount, k) + n(k, isNet)]
  /\ cacheReads' = cacheReads + Cardinality({i \in 1..Len(ts) : ts[i].read})
  /\ UNCHANGED <<cacheDir, fetched>>

\* the response of a pending request arrives: requestFont stores and returns it
NetSuccess(i) ==
  /\ i \in 1..Len(tasks)
  /\ tasks[i].state = "pending"
  /\ LET t == tasks[i]
         response == Buffer(Server(t.url, t.format, scenario))
     IN  /\ cacheDir' = IF StoresResponse(options)
                        THEN saveToCache(cacheDir, TaskKey(t), response, t.encoding)
                        ELSE cacheDir
         /\ fetched' = fetched \cup {TaskKey(t)}
         /\ tasks' = [tasks EXCEPT ![i] = Settle(t, response)]
  /\ overtaken' = (overtaken \/ \E j \in 1..(i - 1) : tasks[j].state = "pending")
  /\ UNCHANGED <<config, pass, pc, fi, netCount, fetchCalls, cacheReads, results,
                 call, cssOut, hookVars>>

\* a pending request fails (non-2xx status or transport failure): axios rejects
NetFail(i) ==
  /\ i \in 1..Len(tasks)
  /\ tasks[i].state = "pending"
  /\ tasks' = [tasks EXCEPT ![i] = [@ EXCEPT !.state = "rejected", !.err = "FetchError"]]
  /\ overtaken' = (overtaken \/ \E j \in 1..(i - 1) : tasks[j].state = "pending")
  /\ UNCHANGED <<config, pass, pc, fi, cacheDir, netCount, fetchCalls, cacheReads,
                 fetched, results, call, cssOut, hookVars>>


(* ------------------------------------------------------------------ *)
(* The hooks (index.js:185-225, Plugin.js:14-69)                       *)
(* ------------------------------------------------------------------ *)
\* the files the optimizeAssets tap loops over: index.js loops over its files
\* array (index.js:211), Plugin.js over the configured formats (Plugin.js:32-33)
OptFiles ==
  IF impl = "index" THEN files
  ELSE [k \in 1..Len(options.formats) |-> AssetName(options.formats[k])]

\* Chunk.get(): the chunk registered under chunkName in this compilation
ChunkGet == chunkCreated

\* the bundler starts a pass with a fresh compilation and calls the make tap;
\* Plugin.js first creates the placeholder chunk (Plugin.js:20-21)
Make ==
  /\ pc = "idle"
  /\ pass < MaxPasses
  /\ pass' = pass + 1
  /\ assets' = NoEntries
  /\ chunkFiles' = <<>>
  /\ chunkCreated' = (impl = "Plugin")
  /\ makeCb' = "none"
  /\ optCb' = "none"
  /\ fi' = 1
  /\ pc' = "makeLoop"
  /\ tasks' = <<>>
  /\ results' = <<>>
  /\ overtaken' = FALSE
  /\ call' = NoCall
  /\ UNCHANGED <<config, cacheDir, netCount, fetchCalls, cacheReads, fetched, cssOut, files>>

\* requestFontsCSS(format) is called: one requestFont per request string
MakeRequest ==
  /\ pc = "makeLoop"
  /\ fi <= Len(options.formats)
  /\ LET format == options.formats[fi]
         urls == createRequestStrings(options)
     IN  /\ Spawn([i \in 1..Len(urls) |-> requestFont(urls[i], format, "utf8", "css")])
         /\ call' = [NoCall EXCEPT !.fn = "requestFontsCSS", !.format = format]
  /\ pc' = "makeAwait"
  /\ UNCHANGED <<config, pass, fi, cssOut, hookVars>>

\* mutant of AwaitResolved: results.unshift instead of results.push
AwaitUnshift(at) ==
  /\ pc = at
  /\ Len(results) < Len(tasks)
  /\ tasks[Len(results) + 1].state = "resolved"
  /\ results' = <<tasks[Len(results) + 1].value>> \o results
  /\ UNCHANGED <<config, pass, pc, fi, cacheDir, netCount, fetchCalls, cacheReads,
                 fetched, tasks, overtaken, call, cssOut, hookVars>>

\* results.push(await promise): the promises are awaited in input order
AwaitResolved(at) ==
  /\ pc = at
  /\ Len(results) < Len(tasks)
  /\ tasks[Len(results) + 1].state = "resolved"
  /\ results' = Append(results, tasks[Len(results) + 1].value)
  /\ UNCHANGED <<config, pass, pc, fi, cacheDir, netCount, fetchCalls, cacheReads,
                 fetched, tasks, overtaken, call, cssOut, hookVars>>

\* the awaited promise is rejected: the tap's async function throws, nothing
\* catches it and the hook's callback is not called
AwaitRejected(at, to) ==
  /\ pc = at
  /\ Len(results) < Len(tasks)
  /\ tasks[Len(results) + 1].state = "rejected"
  /\ pc' = to
  /\ UNCHANGED <<config, pass, fi, fetchVars, call, cssOut, hookVars>>

MakeAwait == AwaitResolved("makeAwait")
MakeReject == AwaitRejected("makeAwait", "makeRejected")

\* requestFontsCSS returns; the asset of the format is drafted
MakeStore ==
  /\ pc = "makeAwait"
  /\ Len(results) = Len(tasks)
  /\ LET css == JoinResults(results)
         file == AssetName(call.format)
     IN  /\ cssOut' = [fn |-> "requestFontsCSS", format |-> call.format, input |-> <<>>, css |-> css]
         /\ files' = IF impl = "index" THEN Append(files, file) ELSE files
         /\ assets' = Put(assets, file, css)
  /\ fi' = fi + 1
  /\ pc' = "makeLoop"
  /\ call' = NoCall
  /\ UNCHANGED <<config, pass, fetchVars, chunkFiles, chunkCreated, makeCb, optCb>>

\* the loop over the formats is over: index.js adds the chunk (index.js:200-205),
\* both tap optimizeAssets and call callback()
MakeDone ==
  /\ pc = "makeLoop"
  /\ fi > Len(options.formats)
  /\ chunkCreated' = TRUE
  /\ makeCb' = "ok"
  /\ pc' = "seal"
  /\ UNCHANGED <<config, pass, fi, fetchVars, call, cssOut, files, assets, chunkFiles, optCb>>

\* the bundler seals the compilation: the chunk's own file is generated from
\* the placeholder module and listed first in chunk.files
Seal ==
  /\ pc = "seal"
  /\ chunkFiles' = Append(chunkFiles, ChunkFile)
  /\ assets' = Put(assets, ChunkFile, PlaceholderSource)
  /\ pc' = IF impl = "Plugin" THEN "afterOptimizeChunkAssets" ELSE "optimizeAssets"
  /\ UNCHANGED <<config, pass, fi, fetchVars, call, cssOut, files, chunkCreated, makeCb, optCb>>

\* the bundler seals the compilation without generating a file for the chunk
\* (chunk asset generation is switched off): chunk.files stays as it was when
\* the plugin reads chunk.files[0] (Plugin.js:63, index.js:209)
SealNoFile ==
  /\ pc = "seal"
  /\ pc' = IF impl = "Plugin" THEN "afterOptimizeChunkAssets" ELSE "optimizeAssets"
  /\ UNCHANGED <<config, pass, fi, fetchVars, call, cssOut, hookVars>>

\* fontsChunk.files.push(format + '.css') for every format (Plugin.js:45-50)
afterOptimizeChunkAssets ==
  /\ pc = "afterOptimizeChunkAssets"
  /\ impl = "Plugin"
  /\ ChunkGet
  /\ chunkFiles' = chunkFiles \o [k \in 1..Len(options.formats) |-> AssetName(options.formats[k])]
  /\ pc' = "optimizeAssets"
  /\ UNCHANGED <<config, pass, fi, fetchVars, call, cssOut, files, assets, chunkCreated, makeCb, optCb>>

\* the optimizeAssets tap starts; index.js deletes the chunk's own file and
\* makes its files array the chunk's file list (index.js:208-210)
optimizeAssets ==
  /\ pc = "optimizeAssets"
  /\ IF impl = "index"
     THEN /\ assets' = Remove(assets, FirstFile(chunkFiles))
          /\ chunkFiles' = files
     ELSE UNCHANGED <<assets, chunkFiles>>
  /\ fi' = 1
  /\ pc' = "optLoop"
  /\ UNCHANGED <<config, pass, fetchVars, call, cssOut, files, chunkCreated, makeCb, optCb>>

\* encodeFonts with options.encode off: the css is returned as it is
OptNoEncode ==
  /\ pc = "optLoop"
  /\ fi <= Len(OptFiles)
  /\ ~options.encode
  /\ LET file == OptFiles[fi]
     IN  /\ cssOut' = [fn |-> "encodeFonts", format |-> <<>>, input |-> assets[file], css |-> assets[file]]
         /\ assets' = Put(assets, file, assets[file])
  /\ fi' = fi + 1
  /\ UNCHANGED <<config, pass, pc, fetchVars, call, files, chunkFiles, chunkCreated, makeCb, optCb>>

\* encodeFonts: the urls are extracted and requestFontFiles starts one
\* requestFontFile per extracted url
OptEncode ==
  /\ pc = "optLoop"
  /\ fi <= Len(OptFiles)
  /\ options.encode
  /\ LET file == OptFiles[fi]
         css == assets[file]
         fontUrls == ExtractFontUrls(css)
     IN  /\ HasMatch(css)
         /\ Spawn([k \in 1..Len(fontUrls) |-> requestFontFile(fontUrls[k])])
         /\ call' = [NoCall EXCEPT !.fn = "encodeFonts", !.file = file, !.css = css,
                                   !.fontUrls = fontUrls]
  /\ pc' = "optAwait"
  /\ UNCHANGED <<config, pass, fi, cssOut, hookVars>>

\* encodeFonts on a text without any url(...): css.match gives null and
\* null.map throws a TypeError
OptEncodeThrow ==
  /\ pc = "optLoop"
  /\ fi <= Len(OptFiles)
  /\ options.encode
  /\ ~HasMatch(assets[OptFiles[fi]])
  /\ call' = [NoCall EXCEPT !.fn = "encodeFonts", !.file = OptFiles[fi], !.css = assets[OptFiles[fi]]]
  /\ pc' = "optRejected"
  /\ UNCHANGED <<config, pass, fi, fetchVars, cssOut, hookVars>>

OptAwait == AwaitResolved("optAwait")
OptReject == AwaitRejected("optAwait", "optRejected")

\* the replacements are applied and the asset is overwritten
OptStore ==
  /\ pc = "optAwait"
  /\ Len(results) = Len(tasks)
  /\ LET css == ReplaceEach(call.css, call.fontUrls, [k \in 1..Len(results) |-> toStr(results[k])], 1)
     IN  /\ cssOut' = [fn |-> "encodeFonts", format |-> <<>>, input |-> call.css, css |-> css]
         /\ assets' = Put(assets, call.file, css)
  /\ fi' = fi + 1
  /\ pc' = "optLoop"
  /\ call' = NoCall
  /\ UNCHANGED <<config, pass, fetchVars, files, chunkFiles, chunkCreated, makeCb, optCb>>

\* the loop over the files is over: callback()
OptDone ==
  /\ pc = "optLoop"
  /\ fi > Len(OptFiles)
  /\ optCb' = "ok"
  /\ pc' = "emit"
  /\ UNCHANGED <<config, pass, fi, fetchVars, call, cssOut, files, assets, chunkFiles,
                 chunkCreated, makeCb>>

\* emit: Plugin.js drops the file listed first in the chunk (Plugin.js:61-64);
\* index.js taps nothing here. The pass is over.
Emit ==
  /\ pc = "emit"
  /\ assets' = IF impl = "Plugin" /\ ChunkGet THEN Remove(assets, FirstFile(chunkFiles)) ELSE assets
  /\ pc' = "idle"
  /\ UNCHANGED <<config, pass, fi, fetchVars, call, cssOut, files, chunkFiles, chunkCreated,
                 makeCb, optCb>>

(* ------------------------------------------------------------------ *)
(* Specification                                                       *)
(* ------------------------------------------------------------------ *)
\* nothing has been compiled yet
Idle ==
  /\ pass = 0
  /\ pc = "idle"
  /\ fi = 0
  /\ cacheDir = NoEntries
  /\ netCount = NoEntries
  /\ fetchCalls = NoEntries
  /\ cacheReads = 0
  /\ fetched = {}
  /\ tasks = <<>>
  /\ results = <<>>
  /\ overtaken = FALSE
  /\ call = NoCall
  /\ cssOut = [fn |-> "none", format |-> <<>>, input |-> <<>>, css |-> <<>>]
  /\ files = <<>>
  /\ assets = NoEntries
  /\ chunkFiles = <<>>
  /\ chunkCreated = FALSE
  /\ makeCb = "none"
  /\ optCb = "none"

Init ==
  /\ impl \in {"index", "Plugin"}
  /\ options \in [fonts : FontConfigs, formats : FormatConfigs, cache : BOOLEAN, encode : BOOLEAN]
  /\ scenario \in Scenarios
  /\ probe = NoProbe
  /\ Idle

Next ==
  \/ Make
  \/ MakeRequest
  \/ MakeAwait
  \/ MakeReject
  \/ MakeStore
  \/ MakeDone
  \/ Seal
  \/ afterOptimizeChunkAssets
  \/ optimizeAssets
  \/ OptNoEncode
  \/ OptEncode
  \/ OptEncodeThrow
  \/ OptAwait
  \/ OptReject
  \/ OptStore
  \/ OptDone
  \/ Emit
  \/ \E i \in 1..Len(tasks) : NetSuccess(i)
  \/ \E i \in 1..Len(tasks) : NetFail(i)

Spec == Init /\ [][Next]_vars

\* the same plugin under a bundler that may also leave the chunk without a
\* file of its own
NextBundler ==
  \/ Next
  \/ SealNoFile

SpecBundler == Init /\ [][NextBundler]_vars


(* ------------------------------------------------------------------ *)
(* The cache methods called directly (index.js:85-105)                 *)
(* ------------------------------------------------------------------ *)
\* the urls and formats the plugin computes cache keys for: the stylesheet
\* urls of the descriptors and the font urls found in the stylesheets
KeyFormats == {Woff, Woff2}
KeyUrls ==
  LET sheets == {createRequestString(d) : d \in Descriptors \ {NoFamily}}
  IN  sheets \cup {FontUrl(u, f) : u \in sheets, f \in KeyFormats}

\* everything but the cache directory and the record of the direct call
runVars == <<impl, options, scenario, pass, pc, fi, netCount, fetchCalls, cacheReads,
             fetched, tasks, results, overtaken, call, cssOut, hookVars>>

\* one constructed plugin that is not compiling
Constructed ==
  /\ impl = "index"
  /\ options = [fonts |-> <<Roboto>>, formats |-> <<Woff, Woff2>>, cache |-> TRUE, encode |-> TRUE]
  /\ scenario = "one"
  /\ Idle

CacheKeys == {getCacheKey(createRequestString(Roboto), f) : f \in KeyFormats}
CacheEncodings == {"utf8", "binary"}
\* what is stored: response bodies (Buffers), empty, text or font bytes, and a string
CacheContents == {Buffer(<<>>), Buffer(<<"a{", "}">>), Buffer(FontBytes), String(<<"a{", "}">>)}

InitCache ==
  /\ Constructed
  /\ probe = [fn |-> "cache", last |-> NoEntries, got |-> NoProbe]

\* saveToCache(key, contents, encoding)
CachePut(key, contents, encoding) ==
  /\ probe.fn = "cache"
  /\ cacheDir' = saveToCache(cacheDir, key, contents, encoding)
  /\ probe' = [probe EXCEPT
                 !.last = Put(probe.last, key,
                              [contents |-> contents, encoding |-> encoding,
                               overwrote |-> key \in DOMAIN cacheDir
                                             /\ cacheDir[key] /= FileBytes(contents, encoding)]),
                 !.got = NoProbe]
  /\ UNCHANGED runVars

\* getFromCache(key, encoding)
CacheGet(key, encoding) ==
  /\ probe.fn = "cache"
  /\ probe' = [probe EXCEPT !.got = [fn |-> "get", key |-> key, encoding |-> encoding,
                                     value |-> getFromCache(cacheDir, key, encoding)]]
  /\ UNCHANGED <<cacheDir, runVars>>

NextCache ==
  \/ \E key \in CacheKeys, contents \in CacheContents, encoding \in CacheEncodings :
       CachePut(key, contents, encoding)
  \/ \E key \in CacheKeys, encoding \in CacheEncodings : CacheGet(key, encoding)

SpecCache == InitCache /\ [][NextCache]_vars

(* ------------------------------------------------------------------ *)
(* The constructor (index.js:13-78)                                    *)
(* ------------------------------------------------------------------ *)
Eot == <<"eot">>
Ttf == <<"ttf">>
DefaultRoboto ==
  [family |-> <<"Roboto">>,
   variants |-> [def |-> TRUE, val |-> <<"400", "400i", "700", "700i">>],
   subsets |-> [def |-> TRUE, val |-> <<"latin", "latin-ext">>]]

\* static defaultOptions; the agents are named by the browser they imitate
defaultOptions ==
  [fonts |-> <<DefaultRoboto>>,
   formats |-> <<Eot, Ttf, Woff, Woff2>>,
   formatAgents |-> [eot |-> "MSIE 8.0", ttf |-> "Safari 5.1.9", woff |-> "Trident 7.0",
                     woff2 |-> "Edge 14"],
   chunkName |-> ChunkName,
   encode |-> TRUE,
   cache |-> TRUE]

OptionKeys == DOMAIN defaultOptions

\* an own property of the user's object: set (def) with a value, or not set
Unset(v) == [def |-> FALSE, val |-> v]
Set(v) == [def |-> TRUE, val |-> v]

\* the objects a user passes, or puts in a configuration file
UserConfigs ==
  [fonts : {Unset(<<>>), Set(<<OpenSans>>)},
   formats : {Unset(<<>>), Set(<<Woff2>>), Set(<<Woff, Woff2>>)},
   formatAgents : {Unset([woff2 |-> ""]), Set([woff2 |-> "Chrome 70"]),
                   Set([woff2 |-> "Chrome 70", svg |-> "Safari 4"])},
   chunkName : {Unset(<<>>)},
   encode : {Unset(TRUE), Set(FALSE)},
   cache : {Unset(TRUE), Set(FALSE)}]

NoUserConfig == [k \in OptionKeys |-> Unset(defaultOptions[k])]

\* Object.assign(target, source): every own property of the source is
\* copied to the target, replacing the value the target had
ObjectAssign(target, source) ==
  [k \in OptionKeys |-> IF source[k].def THEN source[k].val ELSE target[k]]

\* getConfig(fileOptions): the value under the plugin's name, searched in
\* depth, or undefined when the file does not name the plugin
getConfig(fileOptions) ==
  IF fileOptions.named THEN fileOptions.config ELSE NoUserConfig

\* how the constructor is given its options: an object, the path of a file,
\* or nothing (the package.json is read)
InitOptions ==
  /\ Constructed
  /\ probe \in [fn : {"constructor"}, how : {"object", "file", "package"},
                 named : BOOLEAN, config : UserConfigs, done : {FALSE},
                 options : {defaultOptions}]

\* this.options = {}; Object.assign(this.options, defaultOptions, <config>)
Construct ==
  /\ probe.fn = "constructor"
  /\ ~probe.done
  /\ probe' = [probe EXCEPT
                 !.done = TRUE,
                 !.options = ObjectAssign(defaultOptions,
                                          IF probe.how = "object" THEN probe.config
                                          ELSE getConfig(probe))]
  /\ UNCHANGED <<cacheDir, runVars>>

NextOptions == Construct

SpecOptions == InitOptions /\ [][NextOptions]_vars

(* ------------------------------------------------------------------ *)
(* The format of a font url (index.js:166)                             *)
(* ------------------------------------------------------------------ *)
MaxFormats == 2

\* format names a configuration may list; "2" is a name another name ends in
Two == <<"2">>
FormatNames == {Ttf, Woff, Woff2, Two}
FormatLists == SeqsUpTo(FormatNames, MaxFormats) \ {<<>>}
\* font urls as the stylesheets name them
FormatUrls == {FontPrefix \o <<"roboto", ".">> \o ext : ext \in {Ttf, Woff, Woff2, <<"svg">>}}

InitFormat ==
  /\ Constructed
  /\ probe \in [fn : {"requestFontFile"}, fontUrl : FormatUrls, formats : FormatLists,
                 done : {FALSE}, threw : {FALSE}, format : {<<>>}]

\* const format = fontUrl.match(new RegExp('(' + formats.join('|') + ')$'))[1]
MatchFormat ==
  /\ probe.fn = "requestFontFile"
  /\ ~probe.done
  /\ probe' = IF FormatStarts(probe.fontUrl, probe.formats) = {}
               THEN [probe EXCEPT !.done = TRUE, !.threw = TRUE]
               ELSE [probe EXCEPT !.done = TRUE,
                                  !.format = InferFormat(probe.fontUrl, probe.formats)]
  /\ UNCHANGED <<cacheDir, runVars>>

NextFormat == MatchFormat

SpecFormat == InitFormat /\ [][NextFormat]_vars

(* ------------------------------------------------------------------ *)
(* Properties                                                          *)
(* ------------------------------------------------------------------ *)
TaskIds == 1..Len(tasks)

\* the stylesheet text the service gives for descriptor i and a format
RECURSIVE SheetsFrom(_, _, _)
SheetsFrom(urls, format, i) ==
  IF i > Len(urls) THEN <<>>
  ELSE Utf8Decode(Server(urls[i], format, scenario)) \o SheetsFrom(urls, format, i + 1)

\* the per-descriptor stylesheets in descriptor order
ExpectedCSS(format) == SheetsFrom(createRequestStrings(options), format, 1)

\* the text has no url(...) reference other than inlined data URIs
AllInlined(css) ==
  \A k \in 1..Len(ExtractFontUrls(css)) : StartsWith(ExtractFontUrls(css)[k], DataPrefix)

\* C1: with caching enabled, a fetch of a (url, format) of which an earlier
\* fetch has completed successfully issues no network request and returns
\* the stored content, whatever the response body was.
C1_RefetchServedFromCache ==
  options.cache =>
    \A i \in TaskIds :
      (IsFetch(tasks[i]) /\ tasks[i].prior) =>
        /\ ~tasks[i].net
        /\ tasks[i].state = "resolved"
        /\ tasks[i].response = String(Decode(cacheDir[TaskKey(tasks[i])], tasks[i].encoding))

\* C2: with cache = false no step of any fetch changes the cache contents.
C2_DisabledCacheUntouched == [][(~options.cache) => cacheDir' = cacheDir]_vars

\* C3: with cache = false every fetch issues a network request and none reads
\* the cache, also when an entry of its key is on disk: the requests issued
\* for a key are as many as the fetches of it.
C3_DisabledCacheAlwaysRequests ==
  (~options.cache) =>
    /\ cacheReads = 0
    /\ \A i \in TaskIds : IsFetch(tasks[i]) => (tasks[i].net /\ ~tasks[i].read)
    /\ \A k \in DOMAIN fetchCalls : Count(netCount, k) = fetchCalls[k]

\* C3 witness: cache is off, an entry of the key was on disk when the fetch
\* started, and the key has been requested from the network twice
C3_Witness ==
  /\ ~options.cache
  /\ \E i \in TaskIds :
       /\ IsFetch(tasks[i]) /\ tasks[i].present /\ tasks[i].net
       /\ Count(netCount, TaskKey(tasks[i])) >= 2

\* C4: when a fetch fails during the make hook or the optimize-assets hook,
\* the hook's callback is invoked with the error.
C4_FetchErrorReachesCallback ==
  /\ (pc = "makeRejected" /\ tasks[Len(results) + 1].err = "FetchError") => makeCb = "err"
  /\ (pc = "optRejected" /\ call.fontUrls /= <<>> /\ tasks[Len(results) + 1].err = "FetchError")
       => optCb = "err"

\* the plugin has attached the files to the chunk in the current pass
Attached ==
  \/ pc \in {"optLoop", "optAwait", "optRejected", "emit"}
  \/ (pc = "optimizeAssets" /\ impl = "Plugin")
  \/ (pc = "idle" /\ pass > 0)

\* C5: in every pass, once the files are attached, the chunk's file list is
\* exactly one "<format>.css" per configured format, in format order.
C5_ChunkFilesAreTheCssFiles ==
  Attached => chunkFiles = [k \in 1..Len(options.formats) |-> options.formats[k] \o <<".css">>]

\* C6: what requestFontsCSS(format) returns is the concatenation of the
\* per-descriptor stylesheets in descriptor order, in whatever order the
\* requests were answered.
C6_ResultsInDescriptorOrder ==
  cssOut.fn = "requestFontsCSS" => cssOut.css = ExpectedCSS(cssOut.format)

\* C6 witness: requestFontsCSS has returned the stylesheets of two different
\* families of which the second was answered first
C6_Witness ==
  /\ pc = "makeLoop"
  /\ cssOut.fn = "requestFontsCSS"
  /\ overtaken
  /\ Len(options.fonts) = 2
  /\ options.fonts[1] /= options.fonts[2]
  /\ scenario = "one"
  /\ cssOut.css /= <<>>

\* C7: a descriptor without a family yields no request string, and
\* requestFontsCSS issues no request for it and does not fail because of it.
C7_FamilylessDescriptorSkipped ==
  call.fn = "requestFontsCSS" =>
    /\ Len(createRequestStrings(options))
         = Cardinality({i \in 1..Len(options.fonts) : options.fonts[i].family /= <<>>})
    /\ \A i \in TaskIds : tasks[i].url /= Null /\ tasks[i].err /= "TypeError"

\* C8: with encode enabled, what encodeFonts returns contains no occurrence
\* of any remote url its input embedded, and no remote url(...) reference.
C8_EveryOccurrenceInlined ==
  (cssOut.fn = "encodeFonts" /\ options.encode) =>
    /\ AllInlined(cssOut.css)
    /\ \A k \in 1..Len(ExtractFontUrls(cssOut.input)) :
         LET fontUrl == ExtractFontUrls(cssOut.input)[k]
         IN  StartsWith(fontUrl, DataPrefix) \/ Occurrences(cssOut.css, fontUrl) = {}

\* C9: encodeFonts on a text whose url(...) references are all inlined data
\* URIs fetches nothing, does not fail and returns its input.
C9_EncodeIdempotentOnInlined ==
  /\ (cssOut.fn = "encodeFonts" /\ AllInlined(cssOut.input)) => cssOut.css = cssOut.input
  /\ (call.fn = "encodeFonts" /\ AllInlined(call.css)) =>
       /\ pc /= "optRejected"
       /\ \A i \in TaskIds : ~tasks[i].net /\ ~tasks[i].read /\ tasks[i].kind = "data"

\* C10: when the make hook has completed, in every pass, the compilation
\* holds exactly the assets "<format>.css" of the configured formats, each
\* with the stylesheet text of its format.
C10_OneCssAssetPerFormat ==
  (pc = "seal" /\ makeCb = "ok") =>
    /\ DOMAIN assets = {options.formats[k] \o <<".css">> : k \in 1..Len(options.formats)}
    /\ \A k \in 1..Len(options.formats) :
         assets[options.formats[k] \o <<".css">>] = ExpectedCSS(options.formats[k])

\* C10 witness: the make hook of a rebuild has completed with two formats
\* whose stylesheets are not empty
C10_Witness ==
  /\ pc = "seal" /\ makeCb = "ok"
  /\ pass = 2
  /\ Len(options.formats) = 2
  /\ Len(options.fonts) = 2
  /\ scenario = "dup"
  /\ \A k \in 1..Len(options.formats) : assets[options.formats[k] \o <<".css">>] /= <<>>

\* the removal of the pass has run: index.js removes at the start of its
\* optimizeAssets tap (index.js:209), Plugin.js in its emit tap (Plugin.js:63)
RemovalDone ==
  \/ impl = "index" /\ pc \in {"optLoop", "optAwait", "optRejected", "emit"}
  \/ pass > 0 /\ pc = "idle"

\* C11: once the removal has run, the chunk's own generated file is not in
\* the assets and every "<format>.css" asset of the pass is still there,
\* whatever the chunk's file list held when the removal ran.
C11_OnlyPlaceholderRemoved ==
  RemovalDone =>
    /\ ChunkFile \notin DOMAIN assets
    /\ \A k \in 1..Len(options.formats) : AssetName(options.formats[k]) \in DOMAIN assets

\* a requestFont that was answered from the cache
ServedFromCache(t) == IsFetch(t) /\ t.state = "resolved" /\ ~t.net

\* C12: two (url, format) pairs have the same cache key only when they are
\* the same pair, and a requestFont answered from the cache gets the content
\* the service gives for its own url and format, never another format's.
C12_CacheIsolatedPerFormat ==
  /\ Cardinality({getCacheKey(p[1], p[2]) : p \in KeyUrls \X KeyFormats})
       = Cardinality(KeyUrls \X KeyFormats)
  /\ \A i \in TaskIds :
        ServedFromCache(tasks[i]) =>
          tasks[i].response.data = Decode(Server(tasks[i].url, tasks[i].format, scenario),
                                          tasks[i].encoding)

\* a request is answered from the cache while the cache also holds the same
\* url under another format
C12_Witness ==
  \E i \in TaskIds :
    /\ ServedFromCache(tasks[i])
    /\ \E g \in KeyFormats \ {tasks[i].format} : getCacheKey(tasks[i].url, g) \in DOMAIN cacheDir

\* a getFromCache has just returned
GotFromCache == probe.fn = "cache" /\ probe.got.fn = "get"
\* the bytes of the last saveToCache for the key of that getFromCache
LastPutBytes ==
  LET p == probe.last[probe.got.key] IN FileBytes(p.contents, p.encoding)
\* the bytes are text in the encoding: any bytes are latin1, xFF is no UTF-8
ValidIn(bytes, encoding) ==
  encoding = "binary" \/ \A i \in 1..Len(bytes) : bytes[i] /= "xFF"

\* C13: getFromCache for a key returns exactly the content of the most recent
\* saveToCache for that key (read with the encoding it was saved with), and
\* null when nothing was saved under the key.
C13_GetReturnsLastPut ==
  GotFromCache =>
    IF probe.got.key \in DOMAIN probe.last
    THEN probe.got.encoding = probe.last[probe.got.key].encoding =>
           Encode(probe.got.value.data, probe.got.encoding) = LastPutBytes
    ELSE probe.got.value = NullValue

\* C13 as the code has it: getFromCache returns the bytes of the most recent
\* saveToCache for that key decoded as a string in the encoding of the read,
\* whatever was saved under other keys; the bytes come back identical when
\* they are text in that encoding (always for 'binary', valid UTF-8 for
\* 'utf8'); nothing saved under the key gives null.
C13_GetDecodesLastPut ==
  GotFromCache =>
    IF probe.got.key \in DOMAIN probe.last
    THEN /\ probe.got.value = String(Decode(LastPutBytes, probe.got.encoding))
         /\ ValidIn(LastPutBytes, probe.got.encoding) =>
              Encode(probe.got.value.data, probe.got.encoding) = LastPutBytes
    ELSE probe.got.value = NullValue

\* a read of a key that was saved twice with different bytes, while the other
\* key holds other bytes
C13_Witness ==
  /\ GotFromCache
  /\ probe.got.key \in DOMAIN probe.last
  /\ probe.last[probe.got.key].overwrote
  /\ \E k \in DOMAIN cacheDir \ {probe.got.key} : cacheDir[k] /= cacheDir[probe.got.key]

\* the configuration the constructor merged into the defaults
GivenConfig ==
  IF probe.how = "object" \/ probe.named THEN probe.config ELSE NoUserConfig

\* merging a mapping under a mapping: keys of both, the user's value where set
MergeMaps(default, user) ==
  [k \in DOMAIN default \cup DOMAIN user |-> IF k \in DOMAIN user THEN user[k] ELSE default[k]]

\* the deep merge of the defaults under a configuration
DeepMerge(default, user) ==
  [k \in OptionKeys |->
     IF ~user[k].def THEN default[k]
     ELSE IF k = "formatAgents" THEN MergeMaps(default[k], user[k].val)
     ELSE user[k].val]

\* C14: the options the constructor resolves are the deep merge of the
\* defaults under the user's configuration: a formatAgents mapping the user
\* overrides in part keeps the default agents of the other formats.
C14_OptionsAreDeepMerge ==
  (probe.fn = "constructor" /\ probe.done) =>
    probe.options = DeepMerge(defaultOptions, GivenConfig)

\* what one encodeFonts makes of a text whose font urls all get their font
\* (index.js:173-183): each extracted url, in order, replaced at its first
\* occurrence by its inline form; the text itself when encode is off
EncodedOnce(css) ==
  IF ~options.encode THEN css
  ELSE LET fontUrls == ExtractFontUrls(css)
       IN  ReplaceEach(css, fontUrls,
                       [k \in 1..Len(fontUrls) |->
                          IF StartsWith(fontUrls[k], DataPrefix) THEN fontUrls[k]
                          ELSE DataUri(InferFormat(fontUrls[k], options.formats), FontBytes)],
                       1)

\* C15: between the make hook and the optimizeAssets tap every "<format>.css"
\* asset holds the text make stored for the format, and when the
\* optimizeAssets tap has completed it holds encodeFonts applied once to that
\* text, in every pass.
C15_AssetsEncodedOnce ==
  /\ pc \in {"seal", "afterOptimizeChunkAssets", "optimizeAssets"} =>
       \A k \in 1..Len(options.formats) :
         assets[AssetName(options.formats[k])] = ExpectedCSS(options.formats[k])
  /\ (pc = "emit" /\ optCb = "ok") =>
       \A k \in 1..Len(options.formats) :
         assets[AssetName(options.formats[k])] = EncodedOnce(ExpectedCSS(options.formats[k]))

IsSuffix(name, url) ==
  Len(name) <= Len(url) /\ SubSeq(url, Len(url) - Len(name) + 1, Len(url)) = name

\* the configured positions whose name the probed url ends in
SuffixFormats == {k \in 1..Len(probe.formats) : IsSuffix(probe.formats[k], probe.fontUrl)}

FormatMatched == probe.fn = "requestFontFile" /\ probe.done

\* C17: the format of a font url is the first format in configured order
\* whose name the url ends in; when the url ends in several configured names
\* the first listed one is used.
C17_FirstListedSuffixWins ==
  (FormatMatched /\ SuffixFormats /= {}) =>
    /\ ~probe.threw
    /\ \E k \in SuffixFormats :
         /\ probe.format = probe.formats[k]
         /\ \A b \in SuffixFormats : k <= b

\* C17 as the code has it: the format is the longest configured name the url
\* ends in, wherever it stands in the configured order; when the url ends in
\* one configured name only, that name is the format.
C17_LongestSuffixWins ==
  (FormatMatched /\ SuffixFormats /= {}) =>
    /\ ~probe.threw
    /\ \E k \in SuffixFormats :
         /\ probe.format = probe.formats[k]
         /\ \A b \in SuffixFormats : Len(probe.formats[b]) <= Len(probe.formats[k])

\* the url ends in two configured names and the shorter one is listed first
C17_Witness ==
  /\ FormatMatched
  /\ \E a \in SuffixFormats, b \in SuffixFormats :
       a < b /\ Len(probe.formats[a]) < Len(probe.formats[b])

\* the places in the running encodeFonts' url list of the urls that are no
\* data uri and end in no configured format
NoFormatUrls ==
  {k \in 1..Len(call.fontUrls) :
     /\ ~StartsWith(call.fontUrls[k], DataPrefix)
     /\ FormatStarts(call.fontUrls[k], options.formats) = {}}

\* C18: when a url of the text is no data uri and ends in no configured
\* format, its requestFontFile is rejected with the error of the failed
\* match, no network request is made for that url, encodeFonts never gets
\* past that url to return a text, and the asset keeps the text it had.
C18_NoFormatRejectsEncode ==
  (call.fn = "encodeFonts" /\ pc \in {"optAwait", "optRejected"}) =>
    \A k \in NoFormatUrls :
      /\ tasks[k].state = "rejected"
      /\ tasks[k].err = "TypeError"
      /\ ~tasks[k].net
      /\ \A key \in DOMAIN netCount : \A f \in KeyFormats :
           key = getCacheKey(call.fontUrls[k], f) => netCount[key] = 0
      /\ Len(results) < k
      /\ assets[call.file] = call.css

\* encodeFonts has been rejected at a url that ends in no configured format
C18_Witness ==
  /\ call.fn = "encodeFonts"
  /\ pc = "optRejected"
  /\ NoFormatUrls /= {}
  /\ \A k \in NoFormatUrls : tasks[k].state = "rejected"

\* C19: with encode on, encodeFonts on a text without any url(...) does not
\* end in an error and makes no request: it returns the text.
C19_NoUrlTextPassesThrough ==
  (options.encode /\ call.fn = "encodeFonts" /\ ~HasMatch(call.css)) =>
    /\ pc /= "optRejected"
    /\ \A i \in TaskIds : tasks[i].kind = "css"

\* no request is waiting for its answer
NoRequestPending == \A i \in TaskIds : tasks[i].state /= "pending"

\* C20: when a hook's work has come to its end and every network request has
\* completed, the hook has invoked its callback.
C20_HooksInvokeCallback ==
  NoRequestPending =>
    /\ pc = "makeRejected" => makeCb /= "none"
    /\ pc = "optRejected" => optCb /= "none"

====
